---- MODULE Spec2Model ----
(***************************************************************************)
(* Model of the ended-auction ingestion loop of ended_auction_scraper.py:  *)
(* fetch_auctions -> process_auction (decode_inventory_data) ->            *)
(* save_auctions, driven by main's while-True loop, with the sqlite        *)
(* auctions table as the durable state, and of the read-only query         *)
(* service of auction_api.py over the same table.                          *)
(***************************************************************************)
EXTENDS Integers, Sequences, FiniteSets, TLC

\* ------------------------------------------------------------------ bounds
\* Longest auction list an upstream response carries in the model.
MaxAuctions == 2

\* time.sleep(60) of main, in seconds (both sleeps use the same literal).
SLEEP_SECONDS == 60

\* ------------------------------------------------------------ python values
\* Python None (returned by dict.get without default, by process_auction, ...).
PyNone == [py |-> "None"]
PyStr(s) == [py |-> "str", v |-> s]
PyInt(s) == [py |-> "int", v |-> s]
PyBytes(s) == [py |-> "bytearray", v |-> s]
PyDict(d) == [py |-> "dict", v |-> d]

\* auction_id values are kept as plain strings; this one stands for None.
NoneStr == "<None>"

EmptyDict == [k \in {} |-> PyNone]
DictGet(d, k, default) == IF k \in DOMAIN d THEN d[k] ELSE default
DictPut(d, k, val) == [x \in (DOMAIN d) \cup {k} |-> IF x = k THEN val ELSE d[x]]
DictPop(d, k) == [x \in (DOMAIN d) \ {k} |-> d[x]]

\* Python truthiness of an auction_id: None and "" are falsy.
Falsy(s) == s \in {NoneStr, ""}

\* ---------------------------------------------------------------- NBT tags
TagString(s) == [type |-> "TAG_String", value |-> s]
TagByte(s) == [type |-> "TAG_Byte", value |-> s]
TagInt(s) == [type |-> "TAG_Int", value |-> s]
TagByteArray(s) == [type |-> "TAG_Byte_Array", value |-> s]
TagCompound(tags) == [type |-> "TAG_Compound", tags |-> tags]

\* The .value attribute of a primitive tag, as the python object it is.
TagValue(tag) ==
    CASE tag.type = "TAG_String" -> PyStr(tag.value)
      [] tag.type = "TAG_Byte_Array" -> PyBytes(tag.value)
      [] OTHER -> PyInt(tag.value)

RECURSIVE nbt_to_dict(_)
nbt_to_dict(nbt_obj) ==
    IF "tags" \in DOMAIN nbt_obj
    THEN PyDict([name \in DOMAIN nbt_obj.tags |-> nbt_to_dict(nbt_obj.tags[name])])
    ELSE TagValue(nbt_obj)

\* json.loads of a petInfo string: the texts the model uses and what they parse to.
json_loads(text) ==
    CASE text = "{\"type\":\"ocelot\"}" -> [ok |-> TRUE, obj |-> [type |-> "ocelot"]]
      [] text = "{\"type\":\"\"}" -> [ok |-> TRUE, obj |-> [type |-> ""]]
      [] text = "{\"tier\":\"RARE\"}" -> [ok |-> TRUE, obj |-> [tier |-> "RARE"]]
      [] OTHER -> [ok |-> FALSE]

\* str.upper on the pet types of the model.
Upper(s) ==
    CASE s = "ocelot" -> "OCELOT"
      [] OTHER -> s

\* Lines 79-87: PET_<TYPE> rewrite of result["id"].
PetRewrite(result) ==
    IF DictGet(result, "id", PyNone) = PyStr("PET") /\ "petInfo" \in DOMAIN result
    THEN IF result["petInfo"].py \notin {"str", "bytearray"}
         THEN result   \* json.loads raises TypeError, caught at line 86
         ELSE LET parsed == json_loads(result["petInfo"].v)
              IN IF ~parsed.ok
                 THEN result
                 ELSE LET pet_type == DictGet(parsed.obj, "type", "")
                      IN IF pet_type # ""
                         THEN DictPut(result, "id", PyStr("PET_" \o Upper(pet_type)))
                         ELSE result
    ELSE result

\* item_bytes payloads: what base64.b64decode and NBTFile make of the text.
\*   [kind |-> "empty"]   the empty string
\*   [kind |-> "badb64"]  text that is no base64
\*   [kind |-> "badnbt"]  base64 of bytes that are no NBT file
\*   [kind |-> "nbt", root |-> dict]  a well-formed NBT file with that root compound
ErrorDict(msg) == [k \in {"error"} |-> PyStr(msg)]

decode_inventory_data(raw) ==
    IF raw.kind = "empty" THEN ErrorDict("Empty raw data")
    ELSE IF raw.kind \in {"badb64", "badnbt"} THEN ErrorDict("exception")
    ELSE IF "i" \notin DOMAIN raw.root THEN ErrorDict("No 'i' key in NBT data")
    ELSE LET items == raw.root["i"] IN
         IF Len(items) = 0 THEN ErrorDict("No items in inventory")
         ELSE LET item == items[1]
                  result0 == IF "Count" \in DOMAIN item
                             THEN DictPut(EmptyDict, "count", TagValue(item["Count"]))
                             ELSE EmptyDict
              IN IF "tag" \notin DOMAIN item \/ "ExtraAttributes" \notin DOMAIN item["tag"]
                 THEN result0
                 ELSE LET extra_attrs == item["tag"]["ExtraAttributes"]
                          result1 == [k \in (DOMAIN result0) \cup (DOMAIN extra_attrs) |->
                                        IF k \in DOMAIN extra_attrs
                                        THEN nbt_to_dict(extra_attrs[k])
                                        ELSE result0[k]]
                      IN PetRewrite(result1)

\* json.dumps: raises TypeError on a bytearray anywhere in the mapping; otherwise
\* the JSON text, kept as the JSON value it denotes.
RECURSIVE JsonSerializable(_)
JsonSerializable(val) ==
    CASE val.py = "bytearray" -> FALSE
      [] val.py = "dict" -> \A k \in DOMAIN val.v : JsonSerializable(val.v[k])
      [] OTHER -> TRUE

RECURSIVE JsonValue(_)
JsonValue(val) ==
    CASE val.py = "str" -> <<"string", val.v>>
      [] val.py = "int" -> <<"number", val.v>>
      [] val.py = "None" -> <<"null">>
      [] val.py = "dict" -> <<"object", [k \in DOMAIN val.v |-> JsonValue(val.v[k])]>>

json_dumps(d) ==
    IF JsonSerializable(PyDict(d))
    THEN [ok |-> TRUE, text |-> JsonValue(PyDict(d))]
    ELSE [ok |-> FALSE]

\* Mutant of process_auction: no check of auction_id (lines 158-160 left out).
process_auction_keeps_missing_id(auction_data) ==
    LET decoded == decode_inventory_data(DictGet(auction_data, "item_bytes", [kind |-> "empty"]))
        attrs == IF "error" \in DOMAIN decoded THEN EmptyDict ELSE decoded
    IN [auction_id |-> DictGet(auction_data, "auction_id", NoneStr),
        price |-> DictGet(auction_data, "price", 0),
        timestamp |-> DictGet(auction_data, "timestamp", 0),
        bin |-> DictGet(auction_data, "bin", FALSE),
        id |-> DictGet(attrs, "id", PyNone),
        item_attributes |-> JsonValue(PyDict(DictPop(attrs, "id")))]

\* Mutant of process_auction: an auction whose payload fails to decode is dropped.
process_auction_drops_undecodable(auction_data) ==
    LET auction_id == DictGet(auction_data, "auction_id", NoneStr)
        decoded == decode_inventory_data(DictGet(auction_data, "item_bytes", [kind |-> "empty"]))
    IN IF Falsy(auction_id) \/ "error" \in DOMAIN decoded \/ ~json_dumps(DictPop(decoded, "id")).ok
       THEN PyNone
       ELSE [auction_id |-> auction_id,
             price |-> DictGet(auction_data, "price", 0),
             timestamp |-> DictGet(auction_data, "timestamp", 0),
             bin |-> DictGet(auction_data, "bin", FALSE),
             id |-> DictGet(decoded, "id", PyNone),
             item_attributes |-> json_dumps(DictPop(decoded, "id")).text]

\* Mutant of process_auction: the id is read and set to None in the mapping
\* (attrs["id"] = None) instead of popped.
process_auction_nulls_id(auction_data) ==
    LET auction_id == DictGet(auction_data, "auction_id", NoneStr)
        decoded == decode_inventory_data(DictGet(auction_data, "item_bytes", [kind |-> "empty"]))
        attrs == IF "error" \in DOMAIN decoded THEN EmptyDict ELSE decoded
        item_attributes == IF "id" \in DOMAIN attrs THEN DictPut(attrs, "id", PyNone) ELSE attrs
    IN IF Falsy(auction_id) \/ ~json_dumps(item_attributes).ok
       THEN PyNone
       ELSE [auction_id |-> auction_id,
             price |-> DictGet(auction_data, "price", 0),
             timestamp |-> DictGet(auction_data, "timestamp", 0),
             bin |-> DictGet(auction_data, "bin", FALSE),
             id |-> DictGet(attrs, "id", PyNone),
             item_attributes |-> json_dumps(item_attributes).text]

process_auction(auction_data) ==
    LET auction_id == DictGet(auction_data, "auction_id", NoneStr) IN
    IF Falsy(auction_id) THEN PyNone
    ELSE LET item_bytes == DictGet(auction_data, "item_bytes", [kind |-> "empty"])
             decoded == decode_inventory_data(item_bytes)
             attrs == IF "error" \in DOMAIN decoded THEN EmptyDict ELSE decoded
             item_id == DictGet(attrs, "id", PyNone)
             item_attributes == DictPop(attrs, "id")
             dumped == json_dumps(item_attributes)
         IN IF ~dumped.ok
            THEN PyNone    \* TypeError caught at line 182
            ELSE [auction_id |-> auction_id,
                  price |-> DictGet(auction_data, "price", 0),
                  timestamp |-> DictGet(auction_data, "timestamp", 0),
                  bin |-> DictGet(auction_data, "bin", FALSE),
                  id |-> item_id,
                  item_attributes |-> dumped.text]

\* ------------------------------------------------------------------ inputs
\* Item payloads of the model.
PEmpty == [kind |-> "empty"]
PBadB64 == [kind |-> "badb64"]
PBadNbt == [kind |-> "badnbt"]
PNoI == [kind |-> "nbt", root |-> EmptyDict]
PNoItems == [kind |-> "nbt", root |-> [r \in {"i"} |-> <<>>]]
PCountOnly == [kind |-> "nbt", root |-> [r \in {"i"} |-> <<[n \in {"Count"} |-> TagByte("1")]>>]]
SwordItem ==
    [n \in {"Count", "tag"} |->
        IF n = "Count" THEN TagByte("1")
        ELSE [e \in {"ExtraAttributes"} |->
                [k \in {"id", "modifier"} |->
                    IF k = "id" THEN TagString("ASPECT_OF_THE_END") ELSE TagString("sharp")]]]
PSword == [kind |-> "nbt", root |-> [r \in {"i"} |-> <<SwordItem>>]]
\* A one-item inventory whose item has Count 1 and the given ExtraAttributes.
ItemPayload(extra_attrs) ==
    [kind |-> "nbt",
     root |-> [r \in {"i"} |->
                <<[n \in {"Count", "tag"} |->
                     IF n = "Count" THEN TagByte("1")
                     ELSE [e \in {"ExtraAttributes"} |-> extra_attrs]]>>]]
\* Pets: id "PET" with a petInfo text that parses to an object with a type, that
\* is no JSON, that parses to an object without type or with an empty type, and
\* no petInfo at all.
PPetOcelot == ItemPayload([id |-> TagString("PET"), petInfo |-> TagString("{\"type\":\"ocelot\"}")])
PPetBadInfo == ItemPayload([id |-> TagString("PET"), petInfo |-> TagString("{type")])
PPetNoType == ItemPayload([id |-> TagString("PET"), petInfo |-> TagString("{\"tier\":\"RARE\"}")])
PPetEmptyType == ItemPayload([id |-> TagString("PET"), petInfo |-> TagString("{\"type\":\"\"}")])
PPetNoInfo == ItemPayload([id |-> TagString("PET")])
\* An item that is no pet but carries a petInfo.
PSwordPetInfo ==
    ItemPayload([id |-> TagString("ASPECT_OF_THE_END"),
                 petInfo |-> TagString("{\"type\":\"ocelot\"}")])
\* An item with a nested compound attribute.
PNested ==
    ItemPayload([id |-> TagString("ASPECT_OF_THE_END"),
                 enchantments |-> TagCompound([sharpness |-> TagInt("5")])])
\* An item with a TAG_Byte_Array attribute.
PByteArray ==
    ItemPayload([id |-> TagString("ASPECT_OF_THE_END"), data |-> TagByteArray("AQI=")])
\* An item with an attribute named error.
PErrorKey ==
    ItemPayload([id |-> TagString("ASPECT_OF_THE_END"), error |-> TagString("none")])

\* A pet with a well-formed petInfo and an attribute named error.
PPetErrorKey ==
    ItemPayload([id |-> TagString("PET"), petInfo |-> TagString("{\"type\":\"ocelot\"}"),
                 error |-> TagString("none")])

\* The payloads of the scheduler model: one that fails to decode, one that decodes.
Payloads == {PEmpty, PSword}
\* The payloads of the single-cycle model.
AllPayloads ==
    {PEmpty, PBadB64, PBadNbt, PNoI, PNoItems, PCountOnly, PSword,
     PPetOcelot, PPetBadInfo, PPetNoType, PPetEmptyType, PPetNoInfo, PSwordPetInfo,
     PNested, PByteArray, PErrorKey, PPetErrorKey}

AuctionIds == {"a1", "a2"}
\* <<price, timestamp, bin>> of an auction.
Offers == {<<100, 1000, FALSE>>, <<200, 2000, TRUE>>}

Auction(id, offer, payload) ==
    [auction_id |-> id, price |-> offer[1], timestamp |-> offer[2], bin |-> offer[3],
     item_bytes |-> payload]

\* An auction object without the auction_id key, and one whose auction_id is "".
NoIdAuction == [price |-> 100, timestamp |-> 1000, bin |-> FALSE, item_bytes |-> PSword]
EmptyIdAuction == Auction("", <<100, 1000, FALSE>>, PSword)

\* The auctions upstream serves in the scheduler model: every offer and payload
\* for a1, two of them for a2, and an auction without auction_id.
RawAuctions ==
    {Auction("a1", o, p) : o \in Offers, p \in Payloads}
        \cup {Auction("a2", <<100, 1000, FALSE>>, PSword), Auction("a2", <<200, 2000, TRUE>>, PEmpty)}
        \cup {NoIdAuction}

\* The auctions of the single-cycle model.
AllRawAuctions ==
    {Auction(id, o, p) : id \in AuctionIds, o \in Offers, p \in AllPayloads}
        \cup {NoIdAuction, EmptyIdAuction}

AuctionLists == UNION {[1..n -> RawAuctions] : n \in 0..MaxAuctions}

\* What requests.get can come back with.
\*   net: "error" is a transport failure or timeout (RequestException)
\*   status: the HTTP status (raise_for_status raises on 500)
\*   json: whether the body parses as JSON
\*   data: the parsed envelope
OkResponse(aucs) ==
    [net |-> "ok", status |-> 200, json |-> TRUE,
     data |-> [success |-> TRUE, auctions |-> aucs, lastUpdated |-> 2000]]
TransportError == [net |-> "error", status |-> 0, json |-> FALSE, data |-> EmptyDict]
Http500 == [net |-> "ok", status |-> 500, json |-> FALSE, data |-> EmptyDict]
MalformedBody == [net |-> "ok", status |-> 200, json |-> FALSE, data |-> EmptyDict]
NotSuccess ==
    [net |-> "ok", status |-> 200, json |-> TRUE,
     data |-> [success |-> FALSE, cause |-> "Invalid API key"]]
\* An envelope with neither success nor auctions nor lastUpdated.
BareEnvelope == [net |-> "ok", status |-> 200, json |-> TRUE, data |-> EmptyDict]
\* The response of a process that has fetched nothing yet.
NoResponse == [net |-> "none", status |-> 0, json |-> FALSE, data |-> EmptyDict]

FailedResponses == {TransportError, Http500, MalformedBody, NotSuccess}
Responses == FailedResponses \cup {BareEnvelope} \cup {OkResponse(l) : l \in AuctionLists}

\* int(time.time() * 1000) at line 109, when the envelope has no lastUpdated.
ClockMillis == 3000

\* ------------------------------------------------------------------- log
Line(level, msg, nums) == [level |-> level, msg |-> msg, nums |-> nums]

\* ------------------------------------------------------------ fetch_auctions
\* Mutant of fetch_auctions: the success flag of the envelope is not checked.
fetch_auctions_ignores_success(r) ==
    IF r.net # "ok" \/ r.status # 200
    THEN [ok |-> FALSE, logged |-> Line("ERROR", "Network error fetching auctions", <<>>)]
    ELSE IF ~r.json THEN [ok |-> FALSE, logged |-> Line("ERROR", "JSON decode error", <<>>)]
    ELSE [ok |-> TRUE,
          auctions |-> DictGet(r.data, "auctions", <<>>),
          last_updated |-> DictGet(r.data, "lastUpdated", ClockMillis),
          logged |-> Line("INFO", "Fetched auctions", <<Len(DictGet(r.data, "auctions", <<>>))>>)]

\* The result of fetch_auctions on a response: ok = FALSE when it raises (after
\* logging the error), else the auctions and last_updated it returns.
fetch_auctions(r) ==
    IF r.net # "ok" THEN [ok |-> FALSE, logged |-> Line("ERROR", "Network error fetching auctions", <<>>)]
    ELSE IF r.status # 200 THEN [ok |-> FALSE, logged |-> Line("ERROR", "Network error fetching auctions", <<>>)]
    ELSE IF ~r.json THEN [ok |-> FALSE, logged |-> Line("ERROR", "JSON decode error", <<>>)]
    ELSE IF ~DictGet(r.data, "success", TRUE)
         THEN [ok |-> FALSE, logged |-> Line("ERROR", "Unexpected error fetching auctions", <<>>)]
    ELSE LET aucs == DictGet(r.data, "auctions", <<>>)
         IN [ok |-> TRUE,
             auctions |-> aucs,
             last_updated |-> DictGet(r.data, "lastUpdated", ClockMillis),
             logged |-> Line("INFO", "Fetched auctions", <<Len(aucs)>>)]

\* ------------------------------------------------------------------ state
VARIABLES
    pc,                  \* where main is: "start", "loop", "fetching", "processing",
                         \* "save_begin", "inserting", "committing", "summary",
                         \* "job_except", "sleeping", "errsleeping", "done", "crashed",
                         \* "init_failed"
    schema,              \* whether the auctions table exists in auctions.db
    table,               \* the committed rows of the auctions table
    txn,                 \* the rows the open connection of save_auctions sees
    resp,                \* the response the current cycle fetched; after the cycle,
                         \* the response upstream still serves if it has not changed
    i,                   \* loop index of the for loop in progress
    processed_auctions,  \* job's list of processed records
    saved_count,         \* save_auctions' counter
    log,                 \* the log lines written since the cycle started
    signal,              \* pc at which KeyboardInterrupt was delivered, or "none"
    table0,              \* the committed rows when the current cycle started
    slept,               \* seconds slept since the last fetch
    first,               \* no fetch yet since the process started
    faulted,             \* a store operation of the current cycle failed
    failed,              \* the indices of the batch whose insert raised an error that
                         \* is no duplicate key, in the current save_auctions call
    repeat,              \* the current cycle fetched the response of the cycle
                         \* before it, and that cycle had no store failure
    api                  \* the request the query service (auction_api.py) is
                         \* serving, or the response it gave last

vars == <<pc, schema, table, txn, resp, i, processed_auctions, saved_count, log,
          signal, table0, slept, first, faulted, failed, repeat, api>>

\* The query service has served no request yet.
ApiIdle == [route |-> "none", stage |-> "done"]

\* job's locals auctions and last_updated, as fetch_auctions returned them.
auctions == IF fetch_auctions(resp).ok THEN fetch_auctions(resp).auctions ELSE <<>>
last_updated == IF fetch_auctions(resp).ok THEN fetch_auctions(resp).last_updated ELSE 0

\* ------------------------------------------------------------------ store
\* The row sqlite stores for the values bound by line 202: bin (BOOLEAN column)
\* holds the integer 0 or 1, a None id is NULL.
SqlRow(auction) ==
    [auction_id |-> auction.auction_id,
     price |-> auction.price,
     timestamp |-> auction.timestamp,
     bin |-> IF auction.bin THEN 1 ELSE 0,
     id |-> IF auction.id = PyNone THEN [sql |-> "NULL"] ELSE [sql |-> "TEXT", v |-> auction.id.v],
     item_attributes |-> auction.item_attributes]

\* Mutant of PkConflict: uniqueness over the whole row instead of auction_id.
PkConflictWholeRow(rows, row) == row \in rows

\* auction_id TEXT PRIMARY KEY (line 131): the uniqueness check of an INSERT.
PkConflict(rows, row) == \E r \in rows : r.auction_id = row.auction_id

\* Mutant of sql_insert: INSERT OR REPLACE.
sql_insert_or_replace(rows, row) ==
    [raised |-> "none",
     rows |-> {r \in rows : r.auction_id # row.auction_id} \cup {row}]

\* Mutant of sql_insert: INSERT OR IGNORE, so that a duplicate raises nothing.
sql_insert_or_ignore(rows, row) ==
    [raised |-> "none",
     rows |-> IF \E r \in rows : r.auction_id = row.auction_id THEN rows ELSE rows \cup {row}]

\* conn.execute('INSERT INTO auctions ...') on the connection's view `rows`:
\* IntegrityError on a primary-key conflict, else the row is added.
sql_insert(rows, row) ==
    IF PkConflict(rows, row)
    THEN [raised |-> "IntegrityError", rows |-> rows]
    ELSE [raised |-> "none", rows |-> rows \cup {row}]

\* Mutant of CloseUncommitted: closing the connection commits what is pending.
CloseCommits(committed, pending) == pending

\* conn.close() without commit (the finally block of save_auctions): the
\* uncommitted inserts are rolled back, the committed table stays.
CloseUncommitted(committed, pending) == committed

\* Mutant of UncommittedInsert: the connection is in autocommit mode
\* (isolation_level=None), every INSERT is committed by itself.
InsertAutocommits(committed, pending) == pending

\* What the other connections see after an INSERT on the connection of
\* save_auctions (line 194: sqlite3.connect with the default isolation level opens
\* a transaction before the first INSERT): the committed rows, not the pending.
UncommittedInsert(committed, pending) == committed

\* CREATE TABLE IF NOT EXISTS auctions (line 129): existing rows are kept.
CreateTableIfNotExists(rows) == rows

\* ------------------------------------------------------------------- main
Init ==
    /\ pc = "start"
    /\ schema = FALSE
    /\ table = {}
    /\ txn = {}
    /\ resp = NoResponse
    /\ i = 0
    /\ processed_auctions = <<>>
    /\ saved_count = 0
    /\ log = <<>>
    /\ signal = "none"
    /\ table0 = {}
    /\ slept = 0
    /\ first = TRUE
    /\ faulted = FALSE
    /\ failed = {}
    /\ repeat = FALSE
    /\ api = ApiIdle

SleepLine == Line("INFO", "Sleeping for 60 seconds...", <<>>)

\* main, lines 248-254: init_db() before the loop. A failure of init_db is
\* re-raised (line 149) and ends main before the loop starts.
InitDb ==
    /\ pc = "start"
    /\ \E ok \in BOOLEAN :
          IF ok
          THEN /\ schema' = TRUE
               /\ table' = CreateTableIfNotExists(table)
               /\ pc' = "loop"
          ELSE /\ pc' = "init_failed"
               /\ UNCHANGED <<schema, table>>
    /\ UNCHANGED <<txn, resp, i, processed_auctions, saved_count, log, signal, table0,
                   slept, first, faulted, failed, repeat>>
    /\ UNCHANGED api

\* Top of the while loop: job() is called and logs its start (line 226).
JobStart ==
    /\ pc = "loop"
    /\ pc' = "fetching"
    /\ log' = <<Line("INFO", "Starting auction fetch job", <<>>)>>
    /\ table0' = table
    /\ i' = 0
    /\ processed_auctions' = <<>>
    /\ saved_count' = 0
    /\ failed' = {}
    /\ UNCHANGED <<schema, table, txn, resp, signal, slept, first, faulted, repeat>>
    /\ UNCHANGED api

\* Mutant of OnFetchRaised: job has no except clause and main none for Exception.
OnFetchRaisedUncaught == "crashed"

\* Where job continues after fetch_auctions raised: its except clause (line 244).
OnFetchRaised == "job_except"

\* job, lines 227-231: fetch_auctions() returns or raises.
Fetch ==
    /\ pc = "fetching"
    /\ \E r \in (IF resp = NoResponse THEN Responses ELSE {resp}) :
          LET f == fetch_auctions(r) IN
          /\ resp' = r
          /\ repeat' = (~first /\ ~faulted /\ r = resp)
          /\ first' = FALSE
          /\ faulted' = FALSE
          /\ slept' = 0
          /\ IF ~f.ok
             THEN /\ log' = Append(log, f.logged)
                  /\ pc' = OnFetchRaised
                  /\ i' = i
             ELSE IF Len(f.auctions) = 0
             THEN /\ log' = log \o <<f.logged, Line("INFO", "No auctions fetched", <<>>), SleepLine>>
                  /\ pc' = "sleeping"
                  /\ i' = i
             ELSE /\ log' = Append(log, f.logged)
                  /\ pc' = "processing"
                  /\ i' = 1
    /\ UNCHANGED <<schema, table, txn, processed_auctions, saved_count, signal, table0,
                   failed>>
    /\ UNCHANGED api

\* The warnings process_auction logs for one auction.
ProcessLog(auction_data) ==
    IF Falsy(DictGet(auction_data, "auction_id", NoneStr))
    THEN <<Line("WARNING", "Auction missing auction_id", <<>>)>>
    ELSE IF "error" \in DOMAIN decode_inventory_data(DictGet(auction_data, "item_bytes", [kind |-> "empty"]))
    THEN <<Line("WARNING", "Failed to decode item for auction", <<>>)>>
    ELSE IF process_auction(auction_data) = PyNone
    THEN <<Line("ERROR", "Error processing auction", <<>>)>>
    ELSE <<>>

\* Mutant of ForLoopExhausted: save_auctions and the return are inside the for
\* loop, so the loop ends after its first pass.
ForLoopReturnsEarly(n, items) == TRUE

\* Whether pass n of a for loop over items was the last one (line 234: the loop
\* ends when the list is exhausted, line 239 comes after it).
ForLoopExhausted(n, items) == n = Len(items)

\* job, lines 234-237: one pass of the for loop over the fetched auctions.
ProcessOne ==
    /\ pc = "processing"
    /\ i <= Len(auctions)
    /\ LET processed == process_auction(auctions[i]) IN
          /\ processed_auctions' = IF processed # PyNone
                                   THEN Append(processed_auctions, processed)
                                   ELSE processed_auctions
          /\ log' = log \o ProcessLog(auctions[i])
    /\ IF ForLoopExhausted(i, auctions)
       THEN pc' = "save_begin" /\ i' = 0
       ELSE pc' = pc /\ i' = i + 1
    /\ UNCHANGED <<schema, table, txn, resp, saved_count, signal, table0, slept, first,
                   faulted, failed, repeat>>
    /\ UNCHANGED api

\* save_auctions, lines 188-194: the empty-batch return, else sqlite3.connect.
SaveBegin ==
    /\ pc = "save_begin"
    /\ IF Len(processed_auctions) = 0
       THEN /\ pc' = "summary"
            /\ UNCHANGED <<txn, i, log, faulted, failed>>
       ELSE \E ok \in BOOLEAN :
              IF ok
              THEN /\ txn' = table
                   /\ i' = 1
                   /\ pc' = "inserting"
                   /\ UNCHANGED <<log, faulted, failed>>
              ELSE /\ log' = Append(log, Line("ERROR", "Database error", <<>>))
                   /\ faulted' = TRUE
                   /\ pc' = "summary"
                   /\ UNCHANGED <<txn, i>>
    /\ UNCHANGED <<schema, table, resp, processed_auctions, saved_count, signal, table0,
                   slept, first, failed, repeat>>
    /\ UNCHANGED api

\* Mutant of OnInsertError: the error ends the for loop (the try around the loop
\* instead of around the insert).
OnInsertErrorBreak(n) == Len(processed_auctions) + 1

\* What the for loop of save_auctions does after the insert of one record raised
\* something that is no IntegrityError (line 209): log it and go on.
OnInsertError(n) == n + 1

\* save_auctions, lines 196-210: one pass of the for loop. `fails` is a
\* persistence error of that one statement (anything but a duplicate key).
SaveInsert ==
    /\ pc = "inserting"
    /\ i <= Len(processed_auctions)
    /\ \E fails \in BOOLEAN :
          LET row == SqlRow(processed_auctions[i])
              res == sql_insert(txn, row)
              next == IF fails THEN OnInsertError(i) ELSE i + 1
          IN /\ IF fails
                THEN /\ log' = Append(log, Line("ERROR", "Error saving auction", <<>>))
                     /\ faulted' = TRUE
                     /\ failed' = failed \cup {i}
                     /\ UNCHANGED <<table, txn, saved_count>>
                ELSE IF res.raised = "IntegrityError"
                THEN UNCHANGED <<table, txn, saved_count, log, faulted, failed>>   \* logged at DEBUG
                ELSE /\ txn' = res.rows
                     /\ table' = UncommittedInsert(table, res.rows)
                     /\ saved_count' = saved_count + 1
                     /\ UNCHANGED <<log, faulted, failed>>
             /\ IF next > Len(processed_auctions)
                THEN pc' = "committing" /\ i' = 0
                ELSE pc' = pc /\ i' = next
    /\ UNCHANGED <<schema, resp, processed_auctions, signal, table0, slept, first,
                   repeat>>
    /\ UNCHANGED api

\* save_auctions, lines 212-221: conn.commit(), the log line, conn.close().
SaveCommit ==
    /\ pc = "committing"
    /\ \E ok \in BOOLEAN :
          IF ok
          THEN /\ table' = txn
               /\ log' = Append(log, Line("INFO", "Saved new auctions to database", <<saved_count>>))
               /\ UNCHANGED faulted
          ELSE /\ table' = CloseUncommitted(table, txn)
               /\ log' = Append(log, Line("ERROR", "Database error", <<>>))
               /\ faulted' = TRUE
    /\ txn' = {}
    /\ pc' = "summary"
    /\ UNCHANGED <<schema, resp, i, processed_auctions, saved_count, signal, table0, slept,
                   first, failed, repeat>>
    /\ UNCHANGED api

\* Mutant of JobSummary: the summary counts the fetched auctions, not the
\* processed ones.
JobSummaryCountsFetched ==
    /\ pc = "summary"
    /\ log' = log \o <<Line("INFO", "Job completed",
                            <<Len(auctions), saved_count, last_updated>>),
                       SleepLine>>
    /\ pc' = "sleeping"
    /\ UNCHANGED <<schema, table, txn, resp, i, processed_auctions, saved_count, signal,
                   table0, slept, first, faulted, failed, repeat, api>>

\* job, lines 241-242, then main, lines 259-260.
JobSummary ==
    /\ pc = "summary"
    /\ log' = log \o <<Line("INFO", "Job completed",
                            <<Len(processed_auctions), saved_count, last_updated>>),
                       SleepLine>>
    /\ pc' = "sleeping"
    /\ UNCHANGED <<schema, table, txn, resp, i, processed_auctions, saved_count, signal,
                   table0, slept, first, faulted, failed, repeat>>
    /\ UNCHANGED api

\* job, lines 244-245: the except clause logs and job returns; main, lines 259-260.
JobFailed ==
    /\ pc = "job_except"
    /\ log' = log \o <<Line("ERROR", "Job failed", <<>>), SleepLine>>
    /\ pc' = "sleeping"
    /\ UNCHANGED <<schema, table, txn, resp, i, processed_auctions, saved_count, signal,
                   table0, slept, first, faulted, failed, repeat>>
    /\ UNCHANGED api

\* Mutant of OnJobRaised: the except clause of main retries without sleeping.
OnJobRaisedRetryNow == "loop"

\* Where main continues when an Exception escapes job(): its except clause
\* (line 264) logs and sleeps (line 267).
OnJobRaised == "errsleeping"

\* An Exception raised inside job's own except clause (the only place of job not
\* covered by a try) escapes to main, lines 264-267.
JobHandlerRaises ==
    /\ pc = "job_except"
    /\ log' = log \o <<Line("ERROR", "Unexpected error in main loop", <<>>),
                       Line("INFO", "Sleeping for 60 seconds before retry...", <<>>)>>
    /\ pc' = OnJobRaised
    /\ UNCHANGED <<schema, table, txn, resp, i, processed_auctions, saved_count, signal,
                   table0, slept, first, faulted, failed, repeat>>
    /\ UNCHANGED api

\* time.sleep(60) at line 260 returns; the loop starts over. Meanwhile upstream
\* either keeps serving the response of this cycle or moves on to any other.
SleepDone ==
    /\ pc = "sleeping"
    /\ slept' = slept + SLEEP_SECONDS
    /\ pc' = "loop"
    /\ \E unchanged \in BOOLEAN : resp' = IF unchanged THEN resp ELSE NoResponse
    /\ UNCHANGED <<schema, table, txn, i, processed_auctions, saved_count, log,
                   signal, table0, first, faulted, failed, repeat>>
    /\ UNCHANGED api

\* time.sleep(60) at line 267 returns; the loop starts over.
ErrSleepDone ==
    /\ pc = "errsleeping"
    /\ slept' = slept + SLEEP_SECONDS
    /\ pc' = "loop"
    /\ \E unchanged \in BOOLEAN : resp' = IF unchanged THEN resp ELSE NoResponse
    /\ UNCHANGED <<schema, table, txn, i, processed_auctions, saved_count, log,
                   signal, table0, first, faulted, failed, repeat>>
    /\ UNCHANGED api

Terminal == {"done", "crashed", "init_failed"}

\* Mutant of OnKeyboardInterrupt: the except clause of job is a bare except, which
\* catches the KeyboardInterrupt raised during the cycle.
OnKeyboardInterruptCaughtByJob(p) ==
    IF p \in {"start", "errsleeping"} THEN "crashed"
    ELSE IF p \in {"fetching", "processing", "save_begin", "inserting", "committing", "summary"}
    THEN "job_except"
    ELSE "done"

\* Where KeyboardInterrupt, raised at position p, takes main. It is no Exception:
\* no except clause of job, process_auction or save_auctions catches it. Inside the
\* try of the loop (job() and the sleep of line 260) line 261 catches it and
\* breaks; in init_db and in the sleep of line 267 it leaves main uncaught.
OnKeyboardInterrupt(p) == IF p \in {"start", "errsleeping"} THEN "crashed" ELSE "done"

\* SIGINT is delivered: KeyboardInterrupt is raised wherever main is. The finally
\* block of save_auctions closes an open connection on the way out.
KeyboardInterrupt ==
    /\ pc \notin Terminal
    /\ signal' = pc
    /\ pc' = OnKeyboardInterrupt(pc)
    /\ table' = IF pc \in {"inserting", "committing"} THEN CloseUncommitted(table, txn) ELSE table
    /\ txn' = {}
    \* line 262 is the last line of the log of this process
    /\ log' = IF OnKeyboardInterrupt(pc) = "done"
              THEN <<Line("INFO", "Received interrupt signal, shutting down...", <<>>)>>
              ELSE <<>>
    \* main has returned: the next process starts without a fetched response
    /\ resp' = NoResponse
    /\ i' = 0
    /\ slept' = 0
    /\ first' = TRUE
    /\ faulted' = FALSE
    /\ repeat' = FALSE
    /\ UNCHANGED <<schema, table0, processed_auctions, saved_count, failed>>
    /\ UNCHANGED api

\* The process is started again (lines 269-270) on the same auctions.db.
Restart ==
    /\ pc \in Terminal
    /\ pc' = "start"
    /\ log' = <<>>
    /\ signal' = "none"
    /\ table0' = table
    /\ UNCHANGED <<schema, table, txn, resp, i, processed_auctions, saved_count, slept,
                   first, faulted, failed, repeat>>
    /\ UNCHANGED api

Next ==
    \/ InitDb
    \/ JobStart
    \/ Fetch
    \/ ProcessOne
    \/ SaveBegin
    \/ SaveInsert
    \/ SaveCommit
    \/ JobSummary
    \/ JobFailed
    \/ JobHandlerRaises
    \/ SleepDone
    \/ ErrSleepDone
    \/ KeyboardInterrupt
    \/ Restart

Spec == Init /\ [][Next]_vars

\* ------------------------------------------------------- one cycle, any payload
\* The cycle of one fetched auction, from the state job is in when fetch_auctions
\* has returned it, for every auction and payload of AllRawAuctions, on an empty
\* table and on one that already holds a row for a1.
StoredA1 == SqlRow(process_auction(Auction("a1", <<200, 2000, TRUE>>, PSword)))

InitOne ==
    /\ pc = "processing"
    /\ schema = TRUE
    /\ table \in {{}, {StoredA1}}
    /\ table0 = table
    /\ txn = {}
    /\ resp \in {OkResponse(<<a>>) : a \in AllRawAuctions}
    /\ i = 1
    /\ processed_auctions = <<>>
    /\ saved_count = 0
    /\ log = <<Line("INFO", "Starting auction fetch job", <<>>),
               Line("INFO", "Fetched auctions", <<1>>)>>
    /\ signal = "none"
    /\ slept = 0
    /\ first = FALSE
    /\ faulted = FALSE
    /\ failed = {}
    /\ repeat = FALSE
    /\ api = ApiIdle

NextOne ==
    \/ ProcessOne
    \/ SaveBegin
    \/ SaveInsert
    \/ SaveCommit
    \/ JobSummary

SpecOne == InitOne /\ [][NextOne]_vars

\* ------------------------------------------------------- the query service
\* auction_api.py: three GET routes over the same auctions.db. Each request opens
\* its own connection (get_db_connection), which sees the committed rows only.
DEFAULT_LIMIT == 100
\* The request parameters of the model.
Limits == {1, DEFAULT_LIMIT}
SortBys == {NoneStr, "price"}
Orders == {"asc", "desc", "asc; delete from auctions"}
QueriedAuctionIds == AuctionIds \cup {"zz"}
QueriedItemIds == {"ASPECT_OF_THE_END", "PET"}

\* PRAGMA table_info(auctions): the column names of the table init_db creates.
Columns == {"auction_id", "price", "timestamp", "bin", "id", "item_attributes"}

\* order.upper() on the order parameters of the model.
OrderUpper(order) ==
    CASE order = "asc" -> "ASC"
      [] order = "desc" -> "DESC"
      [] OTHER -> "ASC; DELETE FROM AUCTIONS"

\* Mutant of cursor_execute: the query is run with executescript, which runs
\* every statement of the text.
cursor_executescript(rows, order_sql) ==
    IF order_sql \in {"ASC", "DESC"}
    THEN [raised |-> FALSE, rows |-> rows]
    ELSE [raised |-> FALSE, rows |-> {}]

\* c.execute(base_query, (limit,)) with the order text interpolated after ORDER BY
\* (lines 41-46): a text that is more than one statement raises before anything
\* runs; a SELECT leaves the rows as they are.
cursor_execute(rows, order_sql) ==
    IF order_sql \in {"ASC", "DESC"}
    THEN [raised |-> FALSE, rows |-> rows]
    ELSE [raised |-> TRUE, rows |-> rows]

\* The column line 40 or 42 sorts by.
SortColumn(sort_by) == IF ~Falsy(sort_by) /\ sort_by \in Columns THEN sort_by ELSE "timestamp"

\* ORDER BY column ASC|DESC LIMIT limit: the results sqlite may return, as sets
\* of rows (rows with equal keys come in any order).
OrderedLimit(rows, column, order_sql, limit) ==
    {S \in SUBSET rows :
        /\ Cardinality(S) = (IF limit < Cardinality(rows) THEN limit ELSE Cardinality(rows))
        /\ \A r \in S, q \in rows \ S :
              IF order_sql = "ASC" THEN r[column] <= q[column] ELSE r[column] >= q[column]}

\* LIMIT limit without ORDER BY (line 77): any limit of the rows.
AnyLimit(rows, limit) ==
    {S \in SUBSET rows :
        Cardinality(S) = (IF limit < Cardinality(rows) THEN limit ELSE Cardinality(rows))}

\* {k: v for k, v in dict(row).items() if v is not None}: the JSON object of a row.
RowJson(row) ==
    IF row.id = [sql |-> "NULL"]
    THEN [k \in Columns \ {"id"} |-> row[k]]
    ELSE [k \in Columns |-> IF k = "id" THEN row.id.v ELSE row[k]]

\* No request is half-way.
ApiReady == api.stage = "done"
ServerError(route) == [route |-> route, stage |-> "done", status |-> 500]

\* get_auctions, lines 18-31: the parameters are read and SELECT COUNT(*) runs.
\* Without the table the statement raises (no such table) and the request fails.
GetAuctionsCount ==
    /\ ApiReady
    /\ \E sort_by \in SortBys, order \in Orders, limit \in Limits :
          api' = IF ~schema
                 THEN ServerError("/auctions")
                 ELSE [route |-> "/auctions", stage |-> "counted",
                       total_count |-> Cardinality(table),
                       sort_by |-> sort_by, order |-> order, limit |-> limit]
    /\ table' = table
    /\ UNCHANGED <<pc, schema, txn, resp, i, processed_auctions, saved_count, log,
                   signal, table0, slept, first, faulted, failed, repeat>>

\* get_auctions, lines 34-53: PRAGMA table_info, then the SELECT with ORDER BY and
\* LIMIT, in a statement of its own (rows committed since the count are seen).
GetAuctionsSelect ==
    /\ ~ApiReady
    /\ LET executed == cursor_execute(table, OrderUpper(api.order)) IN
          /\ table' = executed.rows
          /\ IF executed.raised
             THEN api' = ServerError("/auctions")
             ELSE \E rows \in OrderedLimit(table, SortColumn(api.sort_by),
                                           OrderUpper(api.order), api.limit) :
                    api' = [route |-> "/auctions", stage |-> "done", status |-> 200,
                            total_count |-> api.total_count,
                            auctions |-> {RowJson(row) : row \in rows}]
    /\ UNCHANGED <<pc, schema, txn, resp, i, processed_auctions, saved_count, log,
                   signal, table0, slept, first, faulted, failed, repeat>>

\* get_auction, lines 57-64.
GetAuction ==
    /\ ApiReady
    /\ \E auction_id \in QueriedAuctionIds :
          LET rows == {r \in table : r.auction_id = auction_id} IN
          api' = IF ~schema THEN ServerError("/auction")
                 ELSE IF rows = {}
                 THEN [route |-> "/auction", stage |-> "done", status |-> 404]
                 ELSE [route |-> "/auction", stage |-> "done", status |-> 200,
                       auctions |-> {RowJson(row) : row \in rows}]
    /\ table' = table
    /\ UNCHANGED <<pc, schema, txn, resp, i, processed_auctions, saved_count, log,
                   signal, table0, slept, first, faulted, failed, repeat>>

\* get_auctions_by_item_id, lines 68-83.
GetAuctionsByItemId ==
    /\ ApiReady
    /\ \E item_id \in QueriedItemIds, limit \in Limits :
          IF ~schema
          THEN api' = ServerError("/auctions/by_id")
          ELSE \E rows \in AnyLimit({r \in table : r.id = [sql |-> "TEXT", v |-> item_id]}, limit) :
                 api' = [route |-> "/auctions/by_id", stage |-> "done", status |-> 200,
                         auctions |-> {RowJson(row) : row \in rows}]
    /\ table' = table
    /\ UNCHANGED <<pc, schema, txn, resp, i, processed_auctions, saved_count, log,
                   signal, table0, slept, first, faulted, failed, repeat>>

\* A step of the query service.
ApiStep == GetAuctionsCount \/ GetAuctionsSelect \/ GetAuction \/ GetAuctionsByItemId

\* The auctions of the model that runs the query service next to a cycle: a new
\* item, an undecodable one and one without auction_id.
ApiRawAuctions ==
    {Auction("a1", <<100, 1000, FALSE>>, PSword),
     Auction("a2", <<200, 2000, TRUE>>, PEmpty),
     NoIdAuction}
ApiAuctionLists == UNION {[1..n -> ApiRawAuctions] : n \in 1..MaxAuctions}

\* The query service next to main: from the start of the process (no table yet)
\* through init_db, and next to one cycle from the state job is in when
\* fetch_auctions has returned, on an empty table and on one that holds a1.
InitApi ==
    \/ Init
    \/ /\ pc = "processing"
       /\ schema = TRUE
       /\ table \in {{}, {StoredA1}}
       /\ table0 = table
       /\ txn = {}
       /\ resp \in {OkResponse(l) : l \in ApiAuctionLists}
       /\ i = 1
       /\ processed_auctions = <<>>
       /\ saved_count = 0
       /\ log = <<Line("INFO", "Starting auction fetch job", <<>>),
                  Line("INFO", "Fetched auctions", <<Len(auctions)>>)>>
       /\ signal = "none"
       /\ slept = 0
       /\ first = FALSE
       /\ faulted = FALSE
       /\ failed = {}
       /\ repeat = FALSE
       /\ api = ApiIdle

NextApi ==
    \/ InitDb
    \/ ProcessOne
    \/ SaveBegin
    \/ SaveInsert
    \/ SaveCommit
    \/ JobSummary
    \/ KeyboardInterrupt
    \/ GetAuctionsCount
    \/ GetAuctionsSelect
    \/ GetAuction
    \/ GetAuctionsByItemId

SpecApi == InitApi /\ [][NextApi]_vars

\* ---------------------------------------------------------------- claims
RowIds(rows) == {r.auction_id : r \in rows}
UniqueKey(rows) == \A r1, r2 \in rows : r1.auction_id = r2.auction_id => r1 = r2
Logged(msg) == \E k \in 1..Len(log) : log[k].msg = msg
\* The save_auctions call of the current cycle committed.
Committed == Logged("Saved new auctions to database")
\* A step in which no KeyboardInterrupt is delivered.
NoSignalStep == signal' = signal

\* C1: whatever init_db and save_auctions calls have run, no two rows of the
\* auctions table (committed, or as seen by the open connection) share an
\* auction_id, and an insert that hits an existing auction_id does not end
\* save_auctions: the for loop goes on to the next record or to the commit, with
\* the rows untouched.
C1_UniqueAuctionId ==
    /\ [](UniqueKey(table) /\ UniqueKey(txn))
    /\ [][(/\ pc = "inserting"
           /\ PkConflict(txn, SqlRow(processed_auctions[i]))
           /\ NoSignalStep)
          => (/\ pc' \in {"inserting", "committing"}
              /\ txn' = txn
              /\ table' = table)]_vars

\* C1 witness: a batch that repeats an auction_id with different values has been
\* saved and committed; one row was stored, the other skipped.
C1_Witness ==
    /\ pc = "summary"
    /\ Committed
    /\ Len(processed_auctions) = 2
    /\ processed_auctions[1].auction_id = processed_auctions[2].auction_id
    /\ processed_auctions[1] # processed_auctions[2]
    /\ failed = {}
    /\ saved_count = 1
    /\ SqlRow(processed_auctions[1]) \in table

\* C2: a committed row is never changed and never removed: every row of the
\* table is in the table after every step (save_auctions, later cycles, an
\* interrupt, a restart with init_db).
C2_AppendOnly == [][table \subseteq table']_vars

\* C2 witness: a cycle has committed a batch holding a record whose auction_id was
\* already stored with other values, and the stored row is still there.
C2_Witness ==
    /\ pc = "summary"
    /\ Committed
    /\ failed = {}
    /\ \E j \in 1..Len(processed_auctions) :
          /\ SqlRow(processed_auctions[j]).auction_id \in RowIds(table0)
          /\ SqlRow(processed_auctions[j]) \notin table0
    /\ table0 \subseteq table

\* C3: a cycle that fetches the response of the cycle before it, when no store
\* operation of that earlier cycle failed, leaves the table as it found it and
\* saves 0 records.
C3_CycleIdempotent == repeat => (table = table0 /\ saved_count = 0)

\* C3 witness: the second of two cycles over the same two-auction response has
\* committed; both auctions are stored and nothing was added.
C3_Witness ==
    /\ repeat
    /\ pc = "summary"
    /\ Committed
    /\ Len(processed_auctions) = 2
    /\ processed_auctions[1].auction_id # processed_auctions[2].auction_id
    /\ {SqlRow(processed_auctions[1]), SqlRow(processed_auctions[2])} \subseteq table

\* The stages of a cycle before its commit: Fetching, Processing, Saving.
InCycle == {"fetching", "processing", "save_begin", "inserting", "committing"}
\* job is past its for loop over the fetched auctions.
AfterProcessing == {"save_begin", "inserting", "committing", "summary"}
HasId(a) == ~Falsy(DictGet(a, "auction_id", NoneStr))
ErrorLogged == \E k \in 1..Len(log) : log[k].level = "ERROR"

\* Without a signal, a cycle that failed goes on: from job's except clause to a
\* sleep, from the sleep to the top of the loop, from there into the next job.
LoopGoesOn ==
    /\ pc = "job_except" => pc' \in {"sleeping", "errsleeping"}
    /\ pc \in {"sleeping", "errsleeping"} => pc' = "loop"
    /\ pc = "loop" => pc' = "fetching"

\* C4: the loop is in a terminal state only after a KeyboardInterrupt was
\* delivered; a step without a signal never leaves a running loop for a terminal
\* state, whatever fetch_auctions, process_auction or save_auctions did in it,
\* and after an error the loop sleeps and starts the next cycle.
C4_LoopSurvivesErrors ==
    /\ [](pc \in {"done", "crashed"} => signal # "none")
    /\ [][(NoSignalStep /\ pc \notin Terminal \cup {"start"})
          => (pc' \notin Terminal /\ LoopGoesOn)]_vars

\* C4 witness: the cycle before failed in fetch_auctions, the loop slept and is
\* at the top of the loop again.
C4_Witness ==
    /\ pc = "loop"
    /\ Logged("Job failed")
    /\ slept = SLEEP_SECONDS
    /\ signal = "none"

\* C5 (as claimed): a signal that arrives in Fetching, Processing or Saving does
\* not end the loop there.
C5_Original == [][(pc \in InCycle /\ signal' # signal) => pc' \notin Terminal]_vars

\* C5 (amended): a signal ends the loop in the step in which it arrives; when it
\* arrives in Fetching, Processing or Saving before the commit, nothing of the
\* cycle's batch is in the table (it is the table the cycle started with), and
\* when it arrives later the table is as the signal found it.
C5_SignalInterruptsCycle ==
    [][(signal' # signal /\ signal' # "none")
       => (/\ pc' \in Terminal
           /\ pc \in InCycle => table' = table0
           /\ pc \notin InCycle => table' = table)]_vars

\* C5 witness: the signal arrived before the commit of a batch of which a record
\* had been inserted; the loop is done and the table is the one of the cycle start.
C5_Witness ==
    /\ pc = "done"
    /\ signal = "committing"
    /\ saved_count >= 1
    /\ table = table0

\* C6: in a cycle whose fetched list holds an auction without auction_id,
\* process_auction returns None for that auction, no row without auction_id is
\* ever in the table, and after the for loop the batch holds, in order, a record
\* for each of the other auctions; once save_auctions has committed with no
\* failed insert, each of the other auctions has its row in the table.
C6_MissingIdDropped ==
    /\ \A r \in table \cup txn : ~Falsy(r.auction_id)
    /\ \A k \in 1..Len(auctions) :
          ~HasId(auctions[k]) => process_auction(auctions[k]) = PyNone
    /\ (pc \in AfterProcessing /\ \E k \in 1..Len(auctions) : ~HasId(auctions[k]))
       => LET withId == SelectSeq(auctions, HasId) IN
          /\ Len(processed_auctions) = Len(withId)
          /\ \A j \in 1..Len(withId) :
                /\ processed_auctions[j].auction_id = withId[j].auction_id
                /\ processed_auctions[j].price = withId[j].price
          /\ (pc = "summary" /\ Committed /\ failed = {})
             => \A j \in 1..Len(withId) : withId[j].auction_id \in RowIds(table)

\* C6 witness: the list was an auction without auction_id followed by one for a1;
\* the cycle committed and the only row it added is the one of a1.
C6_Witness ==
    /\ pc = "summary"
    /\ Committed
    /\ Len(auctions) = 2
    /\ auctions[1] = NoIdAuction
    /\ HasId(auctions[2])
    /\ saved_count = 1
    /\ table0 = {}
    /\ table = {SqlRow(process_auction(auctions[2]))}

\* The record C7 expects for an auction whose payload does not decode.
UndecodedRecord(a) ==
    [auction_id |-> a.auction_id, price |-> a.price, timestamp |-> a.timestamp,
     bin |-> a.bin, id |-> PyNone, item_attributes |-> <<"object", <<>>>>]
DecodeFails(a) == "error" \in DOMAIN decode_inventory_data(a.item_bytes)

\* C7: for an auction with an auction_id whose payload fails to decode,
\* process_auction returns the record with the auction's auction_id, price,
\* timestamp and bin, id None and item_attributes the empty mapping; that record
\* is the batch of the cycle, and once save_auctions has committed without a
\* failed insert the table has a row for the auction_id, which is that record
\* when the auction_id was not stored before.
C7_UndecodableKept ==
    \A k \in 1..Len(auctions) :
       LET a == auctions[k] IN
       (HasId(a) /\ DecodeFails(a))
       => /\ process_auction(a) = UndecodedRecord(a)
          /\ pc \in AfterProcessing \cup {"sleeping"}
             => processed_auctions = <<UndecodedRecord(a)>>
          /\ (pc \in {"summary", "sleeping"} /\ Committed /\ failed = {})
             => /\ a.auction_id \in RowIds(table)
                /\ a.auction_id \notin RowIds(table0)
                   => SqlRow(UndecodedRecord(a)) \in table

\* C7 witness: a cycle committed the row of an auction whose payload was no NBT
\* file; the row has a NULL id.
C7_Witness ==
    /\ pc = "summary"
    /\ Committed
    /\ auctions[1].item_bytes = PBadNbt
    /\ table0 = {StoredA1}
    /\ \E r \in table \ table0 :
          /\ r.auction_id = "a2"
          /\ r.id = [sql |-> "NULL"]

\* C8: when save_auctions reaches its commit, every record of the batch whose own
\* insert raised no error has a row with its auction_id among the rows to commit,
\* whichever other records failed; that row is the record itself when its
\* auction_id was not stored before the call and no earlier record of the batch
\* that was not in error has the same auction_id; and after the commit those rows
\* are in the table.
C8_PerRecordIsolation ==
    (pc = "committing" \/ (pc = "summary" /\ Committed))
    => LET rows == IF pc = "committing" THEN txn ELSE table IN
       \A j \in (1..Len(processed_auctions)) \ failed :
          /\ processed_auctions[j].auction_id \in RowIds(rows)
          /\ (/\ processed_auctions[j].auction_id \notin RowIds(table0)
              /\ \A h \in (1..(j - 1)) \ failed :
                    processed_auctions[h].auction_id # processed_auctions[j].auction_id)
             => SqlRow(processed_auctions[j]) \in rows

\* C8 witness: the insert of the first record of a batch of two failed, the second
\* was inserted and is in the table after the commit.
C8_Witness ==
    /\ pc = "summary"
    /\ Committed
    /\ Len(processed_auctions) = 2
    /\ failed = {1}
    /\ saved_count = 1
    /\ SqlRow(processed_auctions[2]) \in table \ table0

\* C9: a cycle whose fetch failed goes to job's except clause; from there on the
\* table is the table the cycle started with, no connection was opened, no record
\* was processed or saved, an error is in the log, and without a signal the loop
\* sleeps and then starts the next cycle.
C9_FailedFetchWritesNothing ==
    /\ []((resp \in FailedResponses /\ pc \in {"job_except", "sleeping", "errsleeping"})
          => (/\ table = table0
              /\ txn = {}
              /\ processed_auctions = <<>>
              /\ saved_count = 0
              /\ ErrorLogged))
    /\ [][NoSignalStep
          => (/\ (pc = "fetching" /\ resp' \in FailedResponses) => pc' = "job_except"
              /\ LoopGoesOn)]_vars

\* C9 witness: upstream answered HTTP 500 while the table held rows; the cycle
\* logged the failure and the loop sleeps.
C9_Witness ==
    /\ pc = "sleeping"
    /\ resp = Http500
    /\ table # {}
    /\ table = table0
    /\ Logged("Job failed")

\* C10: every job but the first of a process starts after exactly one sleep of
\* SLEEP_SECONDS since the fetch before it, after a successful cycle as after a
\* failed one; the first starts without a sleep.
C10_OneSleepBetweenFetches ==
    [][(pc = "loop" /\ pc' = "fetching")
       => slept = (IF first THEN 0 ELSE SLEEP_SECONDS)]_vars

\* C10 witness: a cycle in which a store operation failed is over, the loop slept
\* once and the next job is about to fetch.
C10_Witness ==
    /\ pc = "fetching"
    /\ ~first
    /\ faulted
    /\ slept = SLEEP_SECONDS

\* The ExtraAttributes compound of the first item of an auction's payload, and
\* what its tags decode to.
HasExtraAttributes(a) ==
    /\ "item_bytes" \in DOMAIN a
    /\ a.item_bytes.kind = "nbt"
    /\ "i" \in DOMAIN a.item_bytes.root
    /\ Len(a.item_bytes.root["i"]) > 0
    /\ "tag" \in DOMAIN a.item_bytes.root["i"][1]
    /\ "ExtraAttributes" \in DOMAIN a.item_bytes.root["i"][1]["tag"]
ExtraAttributes(a) == a.item_bytes.root["i"][1]["tag"]["ExtraAttributes"]
DecodedExtraAttributes(a) ==
    [k \in DOMAIN ExtraAttributes(a) |-> nbt_to_dict(ExtraAttributes(a)[k])]
\* The type of a petInfo value that parses to an object with a type, else "".
PetTypeOf(pet_info) ==
    IF pet_info.py = "str" /\ json_loads(pet_info.v).ok
    THEN DictGet(json_loads(pet_info.v).obj, "type", "")
    ELSE ""
\* The fetched auction of the single-cycle model has been processed.
ProcessedOne == pc \in AfterProcessing \cup {"sleeping"}

\* C11: for the processed auction with an auction_id whose decoded
\* ExtraAttributes has id "PET": with a petInfo that parses to an object with a
\* non-empty type the record's id is "PET_" and the upper-cased type; with a
\* petInfo that does not parse or has no type, or without petInfo, the record's
\* id is "PET" and no error is logged; for every other decoded id the record's
\* id is that id.
C11_PetSpecialization ==
    (ProcessedOne /\ HasId(auctions[1]) /\ HasExtraAttributes(auctions[1])
        /\ "id" \in DOMAIN ExtraAttributes(auctions[1]))
    => LET decoded == DecodedExtraAttributes(auctions[1])
           pet_type == IF "petInfo" \in DOMAIN decoded THEN PetTypeOf(decoded["petInfo"]) ELSE ""
       IN IF decoded["id"] = PyStr("PET")
          THEN /\ Len(processed_auctions) = 1
               /\ ~Logged("Error processing auction")
               /\ processed_auctions[1].id =
                     (IF pet_type # "" THEN PyStr("PET_" \o Upper(pet_type)) ELSE PyStr("PET"))
          ELSE Len(processed_auctions) = 1 => processed_auctions[1].id = decoded["id"]

\* C11 without the auctions that have an attribute named error (see C19): the
\* rewrite of lines 79-87 by itself does what C11 says.
C11_WithoutErrorAttribute ==
    (HasExtraAttributes(auctions[1]) /\ "error" \in DOMAIN ExtraAttributes(auctions[1]))
    \/ C11_PetSpecialization

\* The mapping a serialized item_attributes text denotes.
AttributesOf(record) == record.item_attributes[2]
\* A record or row whose item_attributes is a JSON object without a key id and
\* without a key whose value is null.
CleanAttributes(record) ==
    /\ record.item_attributes[1] = "object"
    /\ "id" \notin DOMAIN AttributesOf(record)
    /\ \A k \in DOMAIN AttributesOf(record) : AttributesOf(record)[k] # <<"null">>

\* C12: every record process_auction has produced, and every row of the table
\* (committed or pending in the open connection), has an item_attributes mapping
\* with no key id and no key whose value is null.
C12_AttributesExcludeIdAndNull ==
    /\ \A k \in 1..Len(processed_auctions) : CleanAttributes(processed_auctions[k])
    /\ \A row \in table \cup txn : CleanAttributes(row)

\* C12 witness: the record of an item whose ExtraAttributes has an id and another
\* attribute has been committed; the row has the id in its id column and the
\* other attributes in item_attributes.
C12_Witness ==
    /\ pc = "summary"
    /\ Committed
    /\ HasExtraAttributes(auctions[1])
    /\ "id" \in DOMAIN ExtraAttributes(auctions[1])
    /\ \E row \in table \ table0 :
          /\ row.id = [sql |-> "TEXT", v |-> "ASPECT_OF_THE_END"]
          /\ DOMAIN AttributesOf(row) = {"count", "modifier"}

\* C13: every step of the query service (the count and the select of /auctions
\* with any sort_by, order and limit, /auction/<auction_id>,
\* /auctions/by_id/<item_id>), at whatever point of init_db or of a cycle it is
\* taken, leaves the rows of the auctions table, the rows pending in the open
\* connection of save_auctions and the existence of the table as they were.
C13_ApiReadOnly ==
    [][ApiStep => (table' = table /\ txn' = txn /\ schema' = schema)]_vars

\* C13 witness: while save_auctions has an uncommitted insert pending, /auctions
\* has been served with the rows of a table that holds some.
C13_Witness ==
    /\ pc \in {"inserting", "committing"}
    /\ txn # table
    /\ table # {}
    /\ api.route = "/auctions"
    /\ api.stage = "done"
    /\ api.status = 200
    /\ api.auctions # {}

\* The stage of the cycle main is in: Reporting is the end of job (the summary
\* line of line 241, or the except clause of line 244), Idle the top of the loop.
Stage(p) ==
    CASE p \in {"start", "loop"} -> "Idle"
      [] p = "fetching" -> "Fetching"
      [] p = "processing" -> "Processing"
      [] p \in {"save_begin", "inserting", "committing"} -> "Saving"
      [] p \in {"summary", "job_except"} -> "Reporting"
      [] p \in {"sleeping", "errsleeping"} -> "Sleeping"
      [] OTHER -> "Stopped"
\* The order of the stages: a fetch that fails or returns no auction is followed
\* by the end of the job and the sleep, without Processing and Saving.
StageOrder ==
    {<<"Idle", "Fetching">>, <<"Fetching", "Processing">>, <<"Processing", "Saving">>,
     <<"Saving", "Reporting">>, <<"Reporting", "Sleeping">>, <<"Sleeping", "Idle">>,
     <<"Fetching", "Reporting">>, <<"Fetching", "Sleeping">>}
\* The batch job builds from a list of fetched auctions.
RECURSIVE Batch(_)
Batch(aucs) ==
    IF aucs = <<>> THEN <<>>
    ELSE (IF process_auction(Head(aucs)) = PyNone THEN <<>> ELSE <<process_auction(Head(aucs))>>)
             \o Batch(Tail(aucs))

\* C14: once init_db has returned and as long as no signal arrives, main moves from stage to stage in the order
\* Idle, Fetching, Processing, Saving, (Reporting,) Sleeping, Idle, Fetching, ...
\* (a failed or empty fetch goes from Fetching straight to the end of the job and
\* the sleep). While main is in Saving every fetched auction of the cycle has been
\* processed: the batch is the records of all of them. A connection of
\* save_auctions is open only in Saving, so a fetch never runs next to a save.
C14_StagesInOrder ==
    /\ [][(NoSignalStep /\ Stage(pc') # Stage(pc) /\ pc # "start" /\ Stage(pc) # "Stopped")
          => <<Stage(pc), Stage(pc')>> \in StageOrder]_vars
    /\ [](Stage(pc) = "Saving" => processed_auctions = Batch(auctions))
    /\ [](Stage(pc) # "Saving" => txn = {})

\* C14 witness: a cycle has fetched two auctions, processed and saved both and
\* slept, and the next cycle has started and is fetching.
C14_Witness ==
    /\ pc = "fetching"
    /\ ~first
    /\ Len(auctions) = 2
    /\ Cardinality(table) = 2
    /\ table0 = table
    /\ txn = {}
    /\ slept = SLEEP_SECONDS

\* The summary lines (line 241) in the log of the current cycle.
SummaryLines == {k \in 1..Len(log) : log[k].msg = "Job completed"}
\* The cycle is over and main sleeps.
CycleOver == pc \in {"sleeping", "errsleeping"}

\* C15 as claimed: when a cycle is over, its log has exactly one summary line,
\* which carries the processed count, the saved count and lastUpdated, also when
\* the fetch returned an empty list.
C15_Original ==
    CycleOver
    => \E k \in 1..Len(log) :
          /\ SummaryLines = {k}
          /\ log[k].nums = <<Len(processed_auctions), saved_count, last_updated>>

\* C15 as amended: when a cycle is over, its log has exactly one summary line if
\* the fetch returned at least one auction, and none if the fetch failed or
\* returned no auction; the line carries the number of records process_auction
\* returned for the fetched auctions, the value save_auctions returned and the
\* lastUpdated of the response (the clock if it has none). No cycle has more than
\* one summary line at any time.
C15_SummaryWhenAuctionsFetched ==
    /\ Cardinality(SummaryLines) <= 1
    /\ CycleOver =>
          IF fetch_auctions(resp).ok /\ Len(auctions) > 0
          THEN \E k \in 1..Len(log) :
                  /\ SummaryLines = {k}
                  /\ log[k].nums = <<Len(Batch(auctions)), saved_count,
                                     DictGet(resp.data, "lastUpdated", ClockMillis)>>
          ELSE SummaryLines = {}

\* C15 witness: a cycle fetched two auctions, one of them without auction_id,
\* saved the other and logged its summary: processed 1, saved 1.
C15_Witness ==
    /\ pc = "sleeping"
    /\ Len(auctions) = 2
    /\ \E k \in 1..Len(log) :
          /\ log[k].msg = "Job completed"
          /\ log[k].nums = <<1, 1, 2000>>

\* C16: the rows of a batch become visible to other connections in one step, the
\* commit, all together: the committed table changes only when save_auctions
\* commits, and then to everything its connection inserted. A count the query
\* service has read next to a cycle is the number of rows before the cycle or the
\* number after its commit, never one in between. When the cycle is cut short
\* before the commit is through (KeyboardInterrupt during the inserts or at the
\* commit, or a failing commit), the table is as it was when the cycle started.
C16_BatchVisibleAtOnce ==
    /\ [][table' # table
          => (pc = "committing" /\ pc' = "summary" /\ table' = txn /\ txn' = {})]_vars
    /\ [](("total_count" \in DOMAIN api)
          => \/ api.total_count = Cardinality(table0)
             \/ (pc \notin {"processing", "save_begin", "inserting", "committing"}
                    /\ api.total_count = Cardinality(table)))
    /\ [][(signal' # signal /\ pc \in {"inserting", "committing"})
          => (table' = table0 /\ txn' = {})]_vars
    /\ []((pc = "summary" /\ ~Committed) => table = table0)

\* C16 witness: save_auctions has inserted the first of two new rows and not yet
\* committed, and the query service has counted the rows of the table in that
\* state: none.
C16_Witness ==
    /\ pc = "inserting"
    /\ i = 2
    /\ Cardinality(txn) = 1
    /\ table = {}
    /\ api.route = "/auctions"
    /\ api.stage = "counted"
    /\ api.total_count = 0

\* C17: when save_auctions has returned (job is at its summary line), the value
\* it returned is the number of rows by which the committed table has grown since
\* the cycle started, whatever the store operations did.
C17_ReturnEqualsGrowth ==
    pc = "summary" => saved_count = Cardinality(table) - Cardinality(table0)

\* C17 where every store operation of the call succeeded or the connection could
\* not be opened: there the returned value is the growth of the table.
C17_ExceptFailedCommit ==
    (pc = "summary" /\ (Committed \/ saved_count = 0))
    => saved_count = Cardinality(table) - Cardinality(table0)

\* C18: once the fetched auction has been processed, if it has a non-empty
\* auction_id then, whatever its payload decodes to, process_auction returned a
\* record for it and the record is in the batch.
C18_RecordForEveryId ==
    (ProcessedOne /\ HasId(auctions[1]))
    => (/\ process_auction(auctions[1]) # PyNone
        /\ Len(processed_auctions) = 1
        /\ processed_auctions[1].auction_id = auctions[1].auction_id)

\* C18 without the payloads that have a TAG_Byte_Array attribute: every other
\* auction with an auction_id gets its record.
C18_ExceptByteArrays ==
    (HasExtraAttributes(auctions[1])
        /\ \E k \in DOMAIN ExtraAttributes(auctions[1]) :
              ExtraAttributes(auctions[1])[k].type = "TAG_Byte_Array")
    \/ C18_RecordForEveryId

\* The payload of an auction is a well-formed NBT file with an item in its list
\* i: decode_inventory_data takes none of its error returns on it.
DecodesWithoutFailure(a) ==
    /\ "item_bytes" \in DOMAIN a
    /\ a.item_bytes.kind = "nbt"
    /\ "i" \in DOMAIN a.item_bytes.root
    /\ Len(a.item_bytes.root["i"]) > 0

\* C19: once the fetched auction has been processed, if its payload decodes
\* without failure and process_auction returned a record, the item_attributes of
\* the record is the mapping decode_inventory_data returned for the payload (the
\* count and every ExtraAttributes key) without the key id, whatever the keys are
\* called.
C19_AttributesAsDecoded ==
    (ProcessedOne /\ HasId(auctions[1]) /\ DecodesWithoutFailure(auctions[1])
        /\ Len(processed_auctions) = 1)
    => /\ "Count" \in DOMAIN auctions[1].item_bytes.root["i"][1]
            => "count" \in DOMAIN decode_inventory_data(auctions[1].item_bytes)
       /\ HasExtraAttributes(auctions[1])
            => DOMAIN ExtraAttributes(auctions[1])
                   \subseteq DOMAIN decode_inventory_data(auctions[1].item_bytes)
       /\ processed_auctions[1].item_attributes =
             JsonValue(PyDict(DictPop(decode_inventory_data(auctions[1].item_bytes), "id")))

\* C19 without the payloads that have an attribute named error.
C19_ExceptErrorAttribute ==
    (HasExtraAttributes(auctions[1]) /\ "error" \in DOMAIN ExtraAttributes(auctions[1]))
    \/ C19_AttributesAsDecoded

\* C20: a KeyboardInterrupt, at whatever point of the loop it is delivered (in a
\* cycle, in the sleep of line 260, in the sleep of line 267), ends main in that
\* step: from then on the process is stopped, and the only step left is the start
\* of a new process; no job is started and no fetch runs after the signal.
C20_SignalStopsLoop ==
    /\ [](signal # "none" => pc \in Terminal)
    /\ [][(signal' # signal /\ signal' # "none")
          => (signal' = pc /\ pc' \in Terminal /\ txn' = {})]_vars
    /\ [][signal # "none"
          => (pc' \in Terminal \/ (pc' = "start" /\ signal' = "none"))]_vars

\* C20 witness: the signal arrived during the sleep that follows an unexpected
\* error (line 267) and main has ended.
C20_Witness ==
    /\ signal = "errsleeping"
    /\ pc = "crashed"

====
